---- MODULE Spec2Model ----
(***************************************************************************)
(* Model of homework.py: a bot that polls the homework-status API and      *)
(* relays status changes and (deduplicated) error texts to one chat.       *)
(*                                                                         *)
(* Python values are encoded as follows.                                   *)
(*   - str          : a TLA+ string.  The Russian texts of the source are  *)
(*                    transliterated (the lexer accepts ASCII only); the   *)
(*                    original is quoted next to each of them.             *)
(*   - Optional[str]: <<>> is None, <<s>> is the string s.                 *)
(*   - a JSON scalar: [t |-> "int", v |-> n] or [t |-> "str", v |-> id].   *)
(*   - a homework   : a function from the keys it has to strings.          *)
(*   - a JSON body  : a record of the facts the code tests on it           *)
(*                    (isdict, keys, hw_islist) with the homeworks list    *)
(*                    and the current_date value.                          *)
(*   - a call result: [raised |-> FALSE, ...] or [raised |-> TRUE, kind    *)
(*                    |-> exception class, text |-> str(exception)].       *)
(***************************************************************************)
EXTENDS Integers, Sequences, FiniteSets, TLC

VARIABLES
    env,          \* os.getenv of the three tokens
    pc,           \* position of main()
    exit_code,    \* <<>> while the process runs, <<n>> after sys.exit(n)
    timestamp,    \* main's local timestamp (the cursor)
    message,      \* main's local message
    response,     \* main's local response, <<>> where it is not read any more
    error_message,\* main's local error_message inside the except block
    cycle,        \* observation of the current cycle
    prev,         \* observation of the previous, completed cycle
    chat,         \* observation of the chat: the error text and the text delivered last
    pure_in,      \* argument of a function applied on its own
    pure_out      \* <<>>, or <<result>> of that application

vars == <<env, pc, exit_code, timestamp, message, response, error_message,
          cycle, prev, chat, pure_in, pure_out>>

pure == <<pure_in, pure_out>>

----------------------------------------------------------------------------
(* Bounds of the environment                                               *)

\* longest homeworks list the status API returns
MaxHomeworks == 2

None == <<>>
Some(s) == <<s>>

IntVal(n) == [t |-> "int", v |-> n]
StrVal(id) == [t |-> "str", v |-> id]

\* values of os.getenv: unset, set to the empty string, set
TokenValues == {None, Some(""), Some("token")}

\* int(time.time()) at startup
Nows == {2592500}

\* values of the JSON field current_date: an integer, and one that is no integer
CurrentDates == {IntVal(1000), StrVal(0)}

HomeworkNames == {"HW1"}
Statuses == {"approved", "reviewing", "rejected", "archived"}

Homework(s, n) == [k \in {"status", "homework_name"} |-> IF k = "status" THEN s ELSE n]

\* the record at index 0: both keys with every status and name, or one key
\* missing, or both
Homeworks ==
    {Homework(s, n) : s \in Statuses, n \in HomeworkNames}
    \cup {[k \in {"status"} |-> "approved"],
          [k \in {"homework_name"} |-> "HW1"],
          [k \in {} |-> ""]}

\* the records after index 0: another homework with another status
LaterHomeworks == {Homework("rejected", "HW2")}

\* the empty list, and lists of 1..MaxHomeworks records
HomeworkLists ==
    {<<>>} \cup
    UNION {{<<h>> \o t : h \in Homeworks, t \in [1..n -> LaterHomeworks]} :
            n \in 0..(MaxHomeworks - 1)}

NoDate == IntVal(0)

Body(isdict, keys, islist, hws, cd) ==
    [isdict |-> isdict, keys |-> keys, hw_islist |-> islist,
     homeworks |-> hws, current_date |-> cd]

\* decoded JSON bodies: not an object; an object without "homeworks"; an
\* object whose "homeworks" is no array; an object with a homeworks array
Bodies ==
    {Body(FALSE, {}, FALSE, <<>>, NoDate)}
    \cup {Body(TRUE, {}, FALSE, <<>>, NoDate)}
    \cup {Body(TRUE, {"current_date"}, FALSE, <<>>, cd) : cd \in CurrentDates}
    \cup {Body(TRUE, {"homeworks"}, FALSE, <<>>, NoDate)}
    \cup {Body(TRUE, {"homeworks"}, TRUE, l, NoDate) : l \in HomeworkLists}
    \cup {Body(TRUE, {"homeworks", "current_date"}, TRUE, l, cd) :
            l \in HomeworkLists, cd \in CurrentDates}

NoBody == Body(FALSE, {}, FALSE, <<>>, NoDate)

StatusCodes == {200, 404, 500}

\* what requests.get does: raise a RequestException with a cause text, or
\* return a response with a status code whose json() decodes or raises
ApiReplies ==
    {[exc |-> Some(c), status_code |-> 0, json_ok |-> FALSE, body |-> NoBody] :
        c \in {"timeout"}}
    \cup {[exc |-> None, status_code |-> s, json_ok |-> FALSE, body |-> NoBody] :
            s \in StatusCodes}
    \cup {[exc |-> None, status_code |-> 200, json_ok |-> TRUE, body |-> b] :
            b \in Bodies}

\* what bot.send_message does: return, or raise one of the two exception
\* classes of the messaging layer
BotOutcomes == {"ok", "ApiException", "RequestException"}

----------------------------------------------------------------------------
(* Results of calls                                                        *)

Return(v) == [raised |-> FALSE, kind |-> "", text |-> "", value |-> v]
\* dflt fills the value field of a raising call; it is never read
Raise(kind, text, dflt) == [raised |-> TRUE, kind |-> kind, text |-> text, value |-> dflt]

\* Python truthiness of an Optional[str]: None and "" are falsy
Truthy(o) == o # None /\ o[1] # ""

----------------------------------------------------------------------------
(* Module constants                                                        *)

RETRY_PERIOD == 600
LAST_MONTH == 30 * 24 * 60 * 60
HTTPStatus_OK == 200

\* the texts of approved and rejected exchanged
HOMEWORK_VERDICTS_swapped ==
    [s \in {"approved", "reviewing", "rejected"} |->
        CASE s = "approved" -> "Rabota proverena: u revyuera est zamechaniya."
          [] s = "reviewing" -> "Rabota vzyata na proverku revyuerom."
          [] s = "rejected" -> "Rabota proverena: revyueru vsyo ponravilos. Ura!"]

\* 'Работа проверена: ревьюеру всё понравилось. Ура!'
\* 'Работа взята на проверку ревьюером.'
\* 'Работа проверена: у ревьюера есть замечания.'
HOMEWORK_VERDICTS ==
    [s \in {"approved", "reviewing", "rejected"} |->
        CASE s = "approved" -> "Rabota proverena: revyueru vsyo ponravilos. Ura!"
          [] s = "reviewing" -> "Rabota vzyata na proverku revyuerom."
          [] s = "rejected" -> "Rabota proverena: u revyuera est zamechaniya."]

TOKEN_NAMES == <<"PRACTICUM_TOKEN", "TELEGRAM_TOKEN", "TELEGRAM_CHAT_ID">>

----------------------------------------------------------------------------
(* The functions of homework.py                                            *)

RECURSIVE Join(_, _)
\* sep.join(seq)
Join(sep, seq) ==
    IF seq = <<>> THEN ""
    ELSE IF Len(seq) = 1 THEN seq[1]
    ELSE seq[1] \o sep \o Join(sep, Tail(seq))

\* "if value is None" in place of "if not value"
missing_tokens_is_none(tokens) ==
    SelectSeq(TOKEN_NAMES, LAMBDA name : tokens[name] = None)

\* [name for name, value in tokens.items() if not value]
missing_tokens(tokens) ==
    SelectSeq(TOKEN_NAMES, LAMBDA name : ~Truthy(tokens[name]))

\* 'Отсутствуют обязательные переменные окружения: {names}'
check_tokens(tokens) ==
    IF missing_tokens(tokens) # <<>>
    THEN Raise("TokenError",
               "Otsutstvuyut obyazatelnye peremennye okruzheniya: "
                   \o Join(", ", missing_tokens(tokens)),
               TRUE)
    ELSE Return(TRUE)

\* the request is made twice
get_api_requests_twice(ts) == <<[from_date |-> ts], [from_date |-> ts]>>

\* the GET requests of one call of get_api_answer, each with its params
get_api_requests(ts) == <<[from_date |-> ts]>>

\* the status code is left out of the error text
get_api_answer_no_code(ts, reply) ==
    IF reply.exc # None
    THEN Raise("APIResponseError", "Oshibka zaprosa: " \o reply.exc[1], NoBody)
    ELSE IF reply.status_code # HTTPStatus_OK
    THEN Raise("APIResponseError", "Endpoint nedostupen.", NoBody)
    ELSE IF ~reply.json_ok
    THEN Raise("JSONDecodeError", "Expecting value: line 1 column 1 (char 0)", NoBody)
    ELSE Return(reply.body)

\* 'Ошибка запроса: {cause}'; 'Эндпоинт недоступен. Код ответа: {code}'.
\* A failure of response.json() is not caught here and leaves the function
\* as the decoder's own exception.
get_api_answer(ts, reply) ==
    IF reply.exc # None
    THEN Raise("APIResponseError", "Oshibka zaprosa: " \o reply.exc[1], NoBody)
    ELSE IF reply.status_code # HTTPStatus_OK
    THEN Raise("APIResponseError",
               "Endpoint nedostupen. Kod otveta: " \o ToString(reply.status_code),
               NoBody)
    ELSE IF ~reply.json_ok
    THEN Raise("JSONDecodeError", "Expecting value: line 1 column 1 (char 0)", NoBody)
    ELSE Return(reply.body)

\* an empty homeworks list is refused as well
check_response_refuses_empty(resp) ==
    IF ~resp.isdict
    THEN Raise("TypeError", "Otvet API ne yavlyaetsya slovarem", TRUE)
    ELSE IF "homeworks" \notin resp.keys
    THEN Raise("TypeError", "V otvete API otsutstvuet klyuch \"homeworks\"", TRUE)
    ELSE IF ~resp.hw_islist \/ resp.homeworks = <<>>
    THEN Raise("TypeError", "Domashnie raboty dolzhny byt v formate spiska", TRUE)
    ELSE Return(TRUE)

\* 'Ответ API не является словарем'
\* 'В ответе API отсутствует ключ "homeworks"'
\* 'Домашние работы должны быть в формате списка'
check_response(resp) ==
    IF ~resp.isdict
    THEN Raise("TypeError", "Otvet API ne yavlyaetsya slovarem", TRUE)
    ELSE IF "homeworks" \notin resp.keys
    THEN Raise("TypeError", "V otvete API otsutstvuet klyuch \"homeworks\"", TRUE)
    ELSE IF ~resp.hw_islist
    THEN Raise("TypeError", "Domashnie raboty dolzhny byt v formate spiska", TRUE)
    ELSE Return(TRUE)

\* 'Отсутствует ключ "{key}" в домашней работе'
\* 'Неожиданный статус домашней работы: {status}'
\* 'Изменился статус проверки работы "{homework_name}". {verdict}'
parse_status(homework) ==
    IF "status" \notin DOMAIN homework
    THEN Raise("APIResponseError",
               "Otsutstvuet klyuch \"" \o "status" \o "\" v domashney rabote", "")
    ELSE IF "homework_name" \notin DOMAIN homework
    THEN Raise("APIResponseError",
               "Otsutstvuet klyuch \"" \o "homework_name" \o "\" v domashney rabote", "")
    ELSE IF homework["status"] \notin DOMAIN HOMEWORK_VERDICTS
    THEN Raise("APIResponseError",
               "Neozhidannyy status domashney raboty: " \o homework["status"], "")
    ELSE Return("Izmenilsya status proverki raboty \"" \o homework["homework_name"]
                    \o "\". " \o HOMEWORK_VERDICTS[homework["status"]])

\* the except clause returns True for a RequestException
send_message_true_on_network_error(outcome, msg) ==
    IF outcome = "ok" THEN Return(TRUE)
    ELSE IF outcome = "ApiException" THEN Return(FALSE)
    ELSE Return(TRUE)

\* the except clause returns True for an ApiException
send_message_true_on_api_error(outcome, msg) ==
    IF outcome = "ok" THEN Return(TRUE)
    ELSE IF outcome = "RequestException" THEN Return(FALSE)
    ELSE Return(TRUE)

\* True is returned whatever the messaging call did
send_message_always_true(outcome, msg) == Return(TRUE)

\* the except clause catches ApiException only
send_message_api_only(outcome, msg) ==
    IF outcome = "ok" THEN Return(TRUE)
    ELSE IF outcome = "ApiException" THEN Return(FALSE)
    ELSE Raise(outcome, "send failed", FALSE)

\* bot.send_message returns, or raises an exception of class outcome; the
\* except clause catches ApiException and RequestException
send_message(outcome, msg) ==
    IF outcome = "ok" THEN Return(TRUE)
    ELSE IF outcome \in {"ApiException", "RequestException"} THEN Return(FALSE)
    ELSE Raise(outcome, "send failed", FALSE)

----------------------------------------------------------------------------
(* main()                                                                  *)

\* homeworks[-1]
first_homework_last(homeworks) == homeworks[Len(homeworks)]

\* homeworks[0]
first_homework(homeworks) == homeworks[1]

\* response.get('current_date', timestamp)
next_timestamp(resp, ts) ==
    IF "current_date" \in resp.keys THEN resp.current_date ELSE ts

\* no comparison with the last error
should_notify_always(msg, err) == TRUE

\* the comparison inverted
should_notify_if_equal(msg, err) == msg = Some(err)

\* message != error_message
should_notify(msg, err) == msg # Some(err)

\* what a cycle has done so far: the cursor and message it started with, the
\* from_date of each request, whether the reply was an empty homeworks list,
\* the text and the class of the exception it raised, and its send attempts
\* in order
NewCycle(ts, msg) ==
    [ts0 |-> ts, msg0 |-> msg, fetches |-> <<>>, empty |-> FALSE,
     raised |-> None, kind |-> "", sends |-> <<>>]

\* what is kept of a completed cycle: the from_date of its requests, the
\* exception text and, of each send attempt, its kind and whether it was
\* delivered
Summary(c) ==
    [fetches |-> c.fetches,
     raised |-> c.raised,
     sends |-> [i \in 1..Len(c.sends) |->
                 [kind |-> c.sends[i].kind, delivered |-> c.sends[i].delivered]]]

Attempt(kind, text, outcome) == [kind |-> kind, text |-> text, delivered |-> outcome = "ok"]

Init ==
    /\ env \in [{"PRACTICUM_TOKEN", "TELEGRAM_TOKEN", "TELEGRAM_CHAT_ID"} -> TokenValues]
    /\ pc = "start"
    /\ exit_code = None
    /\ timestamp = IntVal(0)
    /\ message = None
    /\ response = None
    /\ error_message = None
    /\ cycle = NewCycle(IntVal(0), None)
    /\ prev = None
    /\ chat = [last_error |-> None, last |-> None]
    /\ pure_in = None
    /\ pure_out = None

\* check_tokens(), sys.exit(1) on TokenError; otherwise the bot, the initial
\* cursor and message = None
Startup ==
    /\ pc = "start"
    /\ IF check_tokens(env).raised
       THEN /\ IF check_tokens(env).kind = "TokenError"
               THEN pc' = "exited" /\ exit_code' = Some(1)
               ELSE pc' = "crashed" /\ exit_code' = Some(1)
            /\ UNCHANGED <<timestamp, message, cycle>>
       ELSE \E now \in Nows :
            /\ timestamp' = IntVal(now - LAST_MONTH)
            /\ message' = None
            /\ cycle' = NewCycle(IntVal(now - LAST_MONTH), None)
            /\ pc' = "fetch"
            /\ UNCHANGED exit_code
    /\ UNCHANGED <<env, response, error_message, prev, chat, pure>>

\* the reply is a decoded object whose homeworks is the empty list
EmptyListReply(reply) ==
    /\ reply.exc = None /\ reply.status_code = 200 /\ reply.json_ok
    /\ reply.body.isdict /\ "homeworks" \in reply.body.keys
    /\ reply.body.hw_islist /\ reply.body.homeworks = <<>>

\* the try block up to the choice of what to send: get_api_answer,
\* check_response, response['homeworks'], parse_status of the first homework.
\* response is read once more, by SendStatus, and only when a status message
\* is to be sent; the model keeps it for that step alone.
Fetch ==
    /\ pc = "fetch"
    /\ \E reply \in ApiReplies :
        LET r == get_api_answer(timestamp, reply)
            c == check_response(r.value)
            homeworks == r.value.homeworks
            p == parse_status(first_homework(homeworks))
            err == IF r.raised THEN Some(r.text)
                   ELSE IF c.raised THEN Some(c.text)
                   ELSE IF homeworks # <<>> /\ p.raised THEN Some(p.text)
                   ELSE None
            kind == IF r.raised THEN r.kind
                    ELSE IF c.raised THEN c.kind
                    ELSE IF homeworks # <<>> /\ p.raised THEN p.kind
                    ELSE ""
            msg == IF homeworks # <<>> THEN Some(p.value) ELSE None
        IN  /\ response' = IF err = None /\ Truthy(msg) THEN Some(r.value) ELSE None
            /\ message' = IF err # None THEN message ELSE msg
            /\ error_message' = IF err # None THEN err ELSE error_message
            /\ pc' = IF err # None THEN "except"
                     ELSE IF ~Truthy(msg) THEN "sleep"
                     ELSE "send"
            /\ cycle' = [cycle EXCEPT
                    !.fetches = @ \o [i \in 1..Len(get_api_requests(timestamp)) |->
                                        get_api_requests(timestamp)[i].from_date],
                                      !.raised = err,
                    !.kind = kind,
                                      !.empty = EmptyListReply(reply)]
    /\ UNCHANGED <<env, exit_code, timestamp, prev, chat, pure>>

\* elif send_message(bot, message): timestamp = response.get(...)
SendStatus ==
    /\ pc = "send"
    /\ \E outcome \in BotOutcomes :
        LET s == send_message(outcome, message[1])
        IN  /\ cycle' = [cycle EXCEPT
                    !.sends = Append(@, Attempt("status", message[1], outcome)),
                    !.raised = IF s.raised THEN Some(s.text) ELSE @,
                    !.kind = IF s.raised THEN s.kind ELSE @]
            /\ chat' = IF outcome = "ok" THEN [chat EXCEPT !.last = message] ELSE chat
            /\ IF s.raised
               THEN /\ error_message' = Some(s.text)
                    /\ pc' = "except"
                    /\ UNCHANGED timestamp
               ELSE /\ timestamp' = IF s.value THEN next_timestamp(response[1], timestamp)
                                    ELSE timestamp
                    /\ pc' = "sleep"
                    /\ UNCHANGED error_message
            /\ response' = None
    /\ UNCHANGED <<env, exit_code, message, prev, pure>>

\* except Exception: message != error_message and send_message(bot,
\* error_message), then message = error_message.  An exception leaving
\* send_message here leaves main().
NotifyError ==
    /\ pc = "except"
    /\ should_notify(message, error_message[1])
    /\ \E outcome \in BotOutcomes :
        LET s == send_message(outcome, error_message[1])
        IN  /\ cycle' = [cycle EXCEPT
                    !.sends = Append(@, Attempt("error", error_message[1], outcome))]
            /\ chat' = IF outcome = "ok"
                       THEN [last_error |-> error_message, last |-> error_message]
                       ELSE chat
            /\ IF s.raised
               THEN pc' = "crashed" /\ exit_code' = Some(1) /\ UNCHANGED message
               ELSE /\ message' = IF s.value THEN error_message ELSE message
                    /\ pc' = "sleep"
                    /\ UNCHANGED exit_code
    /\ UNCHANGED <<env, timestamp, response, error_message, prev, pure>>

\* except Exception: message == error_message, nothing is sent
SuppressError ==
    /\ pc = "except"
    /\ ~should_notify(message, error_message[1])
    /\ pc' = "sleep"
    /\ UNCHANGED <<env, exit_code, timestamp, message, response, error_message,
                   cycle, prev, chat, pure>>

\* time.sleep(RETRY_PERIOD) and back to the top of the loop.  error_message
\* is not read again before it is assigned again.
Sleep ==
    /\ pc = "sleep"
    /\ pc' = "fetch"
    /\ prev' = Some(Summary(cycle))
    /\ cycle' = NewCycle(timestamp, message)
    /\ error_message' = None
    /\ UNCHANGED <<env, exit_code, timestamp, message, response, chat, pure>>

Next == Startup \/ Fetch \/ SendStatus \/ NotifyError \/ SuppressError \/ Sleep

Spec == Init /\ [][Next]_vars

\* main() is one thread and each of its calls returns: a step that can be
\* taken is taken
FairSpec == Spec /\ WF_vars(Next)

\* the messaging call returns for a status message
StatusDelivered == SendStatus /\ cycle'.sends[Len(cycle'.sends)].delivered

\* the messaging call returns for an error notification
ErrorDelivered == NotifyError /\ cycle'.sends[Len(cycle'.sends)].delivered

\* the loop runs on, and a delivery that is attempted again and again does
\* not fail forever
LiveSpec ==
    Spec /\ WF_vars(Next) /\ SF_vars(StatusDelivered) /\ SF_vars(ErrorDelivered)

----------------------------------------------------------------------------
(* parse_status applied on its own                                         *)

\* statuses and names of the records parse_status is applied to
ParseStatuses == {"approved", "reviewing", "rejected", "archived", "Approved", ""}
ParseNames == {"HW1", "HW2", "", "a b", "HW1.", "\"q\"", "approved"}

ParseInputs ==
    {Homework(s, n) : s \in ParseStatuses, n \in ParseNames}
    \cup {[k \in {"status"} |-> st] : st \in ParseStatuses}
    \cup {[k \in {"homework_name"} |-> n] : n \in ParseNames}
    \cup {[k \in {} |-> ""]}

ParseInit ==
    /\ env = [n \in {"PRACTICUM_TOKEN", "TELEGRAM_TOKEN", "TELEGRAM_CHAT_ID"} |-> None]
    /\ pc = "pure"
    /\ exit_code = None
    /\ timestamp = IntVal(0)
    /\ message = None
    /\ response = None
    /\ error_message = None
    /\ cycle = NewCycle(IntVal(0), None)
    /\ prev = None
    /\ chat = [last_error |-> None, last |-> None]
    /\ pure_in \in ParseInputs
    /\ pure_out = None

ApplyParseStatus ==
    /\ pc = "pure"
    /\ pure_out = None
    /\ pure_out' = Some(parse_status(pure_in))
    /\ UNCHANGED <<env, pc, exit_code, timestamp, message, response,
                   error_message, cycle, prev, chat, pure_in>>

ParseSpec == ParseInit /\ [][ApplyParseStatus]_vars

----------------------------------------------------------------------------
(* check_response applied on its own                                       *)

\* decoded bodies check_response is applied to: those of the loop, and
\* objects whose "homeworks" is no array beside a current_date
CheckInputs ==
    Bodies \cup
    {Body(TRUE, {"homeworks", "current_date"}, FALSE, <<>>, cd) : cd \in CurrentDates}

CheckInit ==
    /\ env = [n \in {"PRACTICUM_TOKEN", "TELEGRAM_TOKEN", "TELEGRAM_CHAT_ID"} |-> None]
    /\ pc = "pure"
    /\ exit_code = None
    /\ timestamp = IntVal(0)
    /\ message = None
    /\ response = None
    /\ error_message = None
    /\ cycle = NewCycle(IntVal(0), None)
    /\ prev = None
    /\ chat = [last_error |-> None, last |-> None]
    /\ pure_in \in CheckInputs
    /\ pure_out = None

ApplyCheckResponse ==
    /\ pc = "pure"
    /\ pure_out = None
    /\ pure_out' = Some(check_response(pure_in))
    /\ UNCHANGED <<env, pc, exit_code, timestamp, message, response,
                   error_message, cycle, prev, chat, pure_in>>

CheckSpec == CheckInit /\ [][ApplyCheckResponse]_vars

----------------------------------------------------------------------------
(* get_api_answer applied on its own                                       *)

\* cursors get_api_answer is called with
ApiCursors == {IntVal(500), IntVal(1000), StrVal(0)}

\* replies of requests.get: those of the loop, a second cause of a network
\* failure and two more status codes
ApiSpecReplies ==
    ApiReplies
    \cup {[exc |-> Some("connection refused"), status_code |-> 0,
           json_ok |-> FALSE, body |-> NoBody]}
    \cup {[exc |-> None, status_code |-> c, json_ok |-> j, body |-> NoBody] :
            c \in {401, 503}, j \in {FALSE}}

ApiInit ==
    /\ env = [n \in {"PRACTICUM_TOKEN", "TELEGRAM_TOKEN", "TELEGRAM_CHAT_ID"} |-> None]
    /\ pc = "pure"
    /\ exit_code = None
    /\ timestamp = IntVal(0)
    /\ message = None
    /\ response = None
    /\ error_message = None
    /\ cycle = NewCycle(IntVal(0), None)
    /\ prev = None
    /\ chat = [last_error |-> None, last |-> None]
    /\ pure_in \in [ts : ApiCursors, reply : ApiSpecReplies]
    /\ pure_out = None

ApplyGetApiAnswer ==
    /\ pc = "pure"
    /\ pure_out = None
    /\ pure_out' = Some([requests |-> get_api_requests(pure_in.ts),
                         result |-> get_api_answer(pure_in.ts, pure_in.reply)])
    /\ UNCHANGED <<env, pc, exit_code, timestamp, message, response,
                   error_message, cycle, prev, chat, pure_in>>

ApiSpec == ApiInit /\ [][ApplyGetApiAnswer]_vars

----------------------------------------------------------------------------
(* Properties                                                              *)

Looping == pc \in {"fetch", "send", "except", "sleep"}

\* the cycle has sent exactly one message, a status message
OneStatusSend(c) == Len(c.sends) = 1 /\ c.sends[1].kind = "status"

\* C1: the cursor differs from its value at the start of the cycle only when
\* the cycle raised nothing, had a non-empty homework list and delivered its
\* status message; in a cycle with an empty list, a failed status delivery or
\* an exception the cursor is the one the cycle started with.
C1_CursorAdvanceLaw ==
    Looping =>
        /\ timestamp # cycle.ts0 =>
              /\ pc = "sleep"
              /\ cycle.raised = None
              /\ ~cycle.empty
              /\ OneStatusSend(cycle)
              /\ cycle.sends[1].delivered
        /\ cycle.empty => timestamp = cycle.ts0
        /\ cycle.raised # None => timestamp = cycle.ts0
        /\ (\E i \in 1..Len(cycle.sends) :
                cycle.sends[i].kind = "status" /\ ~cycle.sends[i].delivered)
              => timestamp = cycle.ts0

\* a cycle delivered its status message and the cursor moved
C1_Witness ==
    /\ pc = "sleep"
    /\ OneStatusSend(cycle)
    /\ cycle.sends[1].delivered
    /\ timestamp # cycle.ts0

\* the previous and the current cycle are complete and raised the same text
SameErrorTwice ==
    /\ pc = "sleep"
    /\ prev # None
    /\ cycle.raised # None
    /\ prev[1].raised = cycle.raised

\* C2 as stated: two consecutive cycles raising the same text make exactly
\* one notification attempt, in the first cycle.
C2_Original ==
    SameErrorTwice => Len(prev[1].sends) = 1 /\ cycle.sends = <<>>

\* C2 amended: of two consecutive cycles raising the same text, the second
\* makes no attempt when the first delivered its notification or made none,
\* and makes exactly one attempt, of that text, when the first's attempt
\* failed; the first makes at most one attempt.
C2_DedupConsecutive ==
    SameErrorTwice =>
        /\ Len(prev[1].sends) <= 1
        /\ prev[1].sends = <<>> => cycle.sends = <<>>
        /\ (Len(prev[1].sends) = 1 /\ prev[1].sends[1].delivered)
              => cycle.sends = <<>>
        /\ (Len(prev[1].sends) = 1 /\ ~prev[1].sends[1].delivered)
              => /\ Len(cycle.sends) = 1
                 /\ cycle.sends[1].kind = "error"
                 /\ cycle.sends[1].text = cycle.raised[1]

\* the first cycle delivered the notification and the second sent nothing
C2_Witness ==
    /\ SameErrorTwice
    /\ Len(prev[1].sends) = 1
    /\ prev[1].sends[1].kind = "error"
    /\ prev[1].sends[1].delivered
    /\ cycle.sends = <<>>

\* C3 as stated: an error whose text is the error text delivered last is not
\* notified again, whatever cycles came in between.
C3_Claim ==
    (pc = "except" /\ chat.last_error = error_message)
        => ~should_notify(message, error_message[1])

\* C4: with any of the three tokens unset or empty the process ends with
\* exit code 1 and has made no request and no send attempt; with all three
\* set and non-empty it enters the loop.
C4_TokensGate ==
    pc # "start" =>
        IF \E n \in DOMAIN env : env[n] = None \/ env[n] = Some("")
        THEN /\ pc = "exited"
             /\ exit_code = Some(1)
             /\ cycle.fetches = <<>> /\ cycle.sends = <<>>
             /\ prev = None /\ response = None
        ELSE Looping /\ exit_code = None

\* only the chat id is missing, as an empty string, and the process has exited
C4_Witness ==
    /\ pc = "exited"
    /\ env["PRACTICUM_TOKEN"] = Some("token")
    /\ env["TELEGRAM_TOKEN"] = Some("token")
    /\ env["TELEGRAM_CHAT_ID"] = Some("")

VerdictText(s) ==
    CASE s = "approved" -> "Rabota proverena: revyueru vsyo ponravilos. Ura!"
      [] s = "reviewing" -> "Rabota vzyata na proverku revyuerom."
      [] s = "rejected" -> "Rabota proverena: u revyuera est zamechaniya."

\* C10: parse_status raises APIResponseError when status is absent, when
\* homework_name is absent or when status is none of approved, reviewing,
\* rejected; otherwise it returns the template with the name and the text of
\* the status, which is not empty.
C10_ParseStatus ==
    pure_out # None =>
        LET h == pure_in
            r == pure_out[1]
        IN  IF \/ "status" \notin DOMAIN h
               \/ "homework_name" \notin DOMAIN h
               \/ h["status"] \notin {"approved", "reviewing", "rejected"}
            THEN r.raised /\ r.kind = "APIResponseError"
            ELSE /\ ~r.raised
                 /\ r.value = "Izmenilsya status proverki raboty \""
                                \o h["homework_name"] \o "\". "
                                \o VerdictText(h["status"])
                 /\ r.value # ""

\* an approved record with a name has been formatted
C10_Witness ==
    /\ pure_out # None
    /\ pure_in = Homework("approved", "HW1")
    /\ ~pure_out[1].raised

\* C5: once the loop is entered the process stays in it: no step leaves the
\* loop, every cycle that has fetched reaches the sleep, whatever it raised,
\* and every sleep is followed by the next fetch.
C5_LoopNeverEnds ==
    /\ [][Looping => Looping']_vars
    /\ [](Looping => ENABLED Next)
    /\ [](pc \in {"send", "except"} => <>(pc = "sleep"))
    /\ [](pc = "sleep" => <>(pc = "fetch"))

\* a cycle raised an error, failed to deliver its notification and sleeps
C5_Witness ==
    /\ pc = "sleep"
    /\ cycle.raised # None
    /\ Len(cycle.sends) = 1
    /\ cycle.sends[1].kind = "error"
    /\ ~cycle.sends[1].delivered

\* the record has both keys and one of the three statuses
WellFormed(h) ==
    /\ "status" \in DOMAIN h
    /\ "homework_name" \in DOMAIN h
    /\ h["status"] \in {"approved", "reviewing", "rejected"}

\* the message for a well-formed record
Formatted(h) ==
    "Izmenilsya status proverki raboty \"" \o h["homework_name"] \o "\". "
        \o VerdictText(h["status"])

\* C6: a cycle that goes on to send a status message has a non-empty
\* homeworks list with a well-formed record at index 0 and sends the
\* formatted message of that record,
\* once; when that delivery succeeds the cursor becomes the response's
\* current_date if the key is present and stays as it was if it is absent.
C6_FirstRecordAndCursor ==
    [][/\ (pc = "fetch" /\ pc' = "send") =>
            /\ response'[1].homeworks # <<>>
            /\ WellFormed(response'[1].homeworks[1])
            /\ message' = Some(Formatted(response'[1].homeworks[1]))
       /\ pc = "send" =>
            /\ Len(cycle'.sends) = 1
            /\ cycle'.sends[1].kind = "status"
            /\ WellFormed(response[1].homeworks[1])
            /\ cycle'.sends[1].text = Formatted(response[1].homeworks[1])
            /\ cycle'.sends[1].delivered =>
                  timestamp' = IF "current_date" \in response[1].keys
                               THEN response[1].current_date
                               ELSE timestamp]_vars

\* the message of an approved HW1 was delivered and moved the cursor from
\* its initial value to the response's current_date
C6_Witness ==
    /\ pc = "sleep"
    /\ OneStatusSend(cycle)
    /\ cycle.sends[1].delivered
    /\ cycle.sends[1].text = Formatted(Homework("approved", "HW1"))
    /\ cycle.ts0 = IntVal(500)
    /\ timestamp = IntVal(1000)

\* C7: a cycle whose response is valid and has an empty homeworks list makes
\* no send attempt, raises nothing, leaves the cursor as it was and is at the
\* sleep.
C7_EmptyListCycle ==
    (Looping /\ cycle.empty) =>
        /\ pc = "sleep"
        /\ cycle.sends = <<>>
        /\ cycle.raised = None
        /\ timestamp = cycle.ts0

\* a cycle got an empty list after an earlier cycle had moved the cursor
C7_Witness ==
    /\ pc = "sleep"
    /\ cycle.empty
    /\ timestamp = IntVal(1000)

\* C8: send_message returns True when the messaging call completed and False
\* when it failed with an API or a network error, and raises in neither
\* case: the process never dies in the except block, the except block is
\* never entered after a send attempt, and a cycle whose status delivery
\* failed has raised nothing.
C8_SendNeverRaises ==
    /\ \A o \in BotOutcomes :
          LET r == send_message(o, IF message = None THEN "" ELSE message[1])
          IN  ~r.raised /\ r.value = (o = "ok")
    /\ pc # "crashed"
    /\ pc = "except" => cycle.sends = <<>>
    /\ (Looping /\ Len(cycle.sends) >= 1 /\ cycle.sends[1].kind = "status")
          => cycle.raised = None

\* a status delivery failed and the cycle went to the sleep without raising
C8_Witness ==
    /\ pc = "sleep"
    /\ OneStatusSend(cycle)
    /\ ~cycle.sends[1].delivered
    /\ cycle.raised = None

\* the cycle's only send attempt is an error notification that failed
FailedErrorSend(sends) ==
    Len(sends) = 1 /\ sends[1].kind = "error" /\ ~sends[1].delivered

\* C9: a cycle whose error notification failed leaves message as it was at
\* the start of the cycle, and when the next cycle raises the same text it
\* attempts the notification again.
C9_FailedNotificationRetried ==
    /\ (pc = "sleep" /\ FailedErrorSend(cycle.sends)) => message = cycle.msg0
    /\ (SameErrorTwice /\ FailedErrorSend(prev[1].sends)) =>
          /\ Len(cycle.sends) = 1
          /\ cycle.sends[1].kind = "error"
          /\ cycle.sends[1].text = cycle.raised[1]

\* the notification failed in one cycle and the next cycle, raising the same
\* text, delivered it
C9_Witness ==
    /\ SameErrorTwice
    /\ FailedErrorSend(prev[1].sends)
    /\ Len(cycle.sends) = 1
    /\ cycle.sends[1].delivered
    /\ message = cycle.raised

\* C11: check_response raises TypeError exactly when the response is no
\* mapping, or has no "homeworks" key, or has a "homeworks" value that is no
\* list; every other response passes, whatever its records and with or
\* without current_date.
C11_CheckResponse ==
    pure_out # None =>
        LET b == pure_in
            r == pure_out[1]
        IN  IF ~b.isdict \/ "homeworks" \notin b.keys \/ ~b.hw_islist
            THEN r.raised /\ r.kind = "TypeError"
            ELSE ~r.raised

\* a response whose first record has no keys, with a current_date, has passed
C11_Witness ==
    /\ pure_out # None
    /\ ~pure_out[1].raised
    /\ pure_in.hw_islist
    /\ Len(pure_in.homeworks) = 2
    /\ DOMAIN pure_in.homeworks[1] = {}
    /\ "current_date" \in pure_in.keys

\* C12: get_api_answer makes one GET, with from_date the cursor it was given;
\* a network failure gives an APIResponseError with the cause text, a status
\* other than 200 an APIResponseError with the status code, so that the text
\* is the same for the same code and differs for different codes, and a 200
\* reply that decodes gives the decoded body as it is.
C12_GetApiAnswer ==
    pure_out # None =>
        LET ts == pure_in.ts
            reply == pure_in.reply
            r == pure_out[1].result
        IN  /\ pure_out[1].requests = <<[from_date |-> ts]>>
            /\ reply.exc # None =>
                  /\ r.raised /\ r.kind = "APIResponseError"
                  /\ r.text = "Oshibka zaprosa: " \o reply.exc[1]
            /\ (reply.exc = None /\ reply.status_code # 200) =>
                  /\ r.raised /\ r.kind = "APIResponseError"
                  /\ r.text = "Endpoint nedostupen. Kod otveta: "
                                \o ToString(reply.status_code)
                  /\ \A c \in {401, 404, 500, 503} \ {reply.status_code} :
                        get_api_answer(ts, [reply EXCEPT !.status_code = c]).text
                            # r.text
            /\ (reply.exc = None /\ reply.status_code = 200 /\ reply.json_ok) =>
                  ~r.raised /\ r.value = reply.body

\* a 503 reply to a request from cursor 1000 has given the error with its code
C12_Witness ==
    /\ pure_out # None
    /\ pure_in.ts = IntVal(1000)
    /\ pure_in.reply.status_code = 503
    /\ pure_out[1].result.text = "Endpoint nedostupen. Kod otveta: 503"

C14_Claim ==
    Looping => timestamp.t = "int"

\* C15: a cycle makes one request, before anything else, and at most one
\* send attempt: a status message only if nothing was raised, an error
\* notification only if something was raised, and never both.
C15_OneFetchOneSend ==
    Looping =>
        /\ Len(cycle.fetches) = (IF pc = "fetch" THEN 0 ELSE 1)
        /\ Len(cycle.sends) <= 1
        /\ pc \in {"fetch", "send"} => cycle.sends = <<>>
        /\ \A i \in 1..Len(cycle.sends) :
              /\ cycle.sends[i].kind = "status" =>
                    cycle.raised = None /\ ~cycle.empty
              /\ cycle.sends[i].kind = "error" => cycle.raised # None

\* a cycle made its request, failed to deliver the status message and sleeps
\* with that one attempt
C15_Witness ==
    /\ pc = "sleep"
    /\ Len(cycle.fetches) = 1
    /\ cycle.sends # <<>>
    /\ cycle.sends[1].kind = "status"
    /\ ~cycle.sends[1].delivered

\* C16: when a cycle raised and made no notification attempt, the text the
\* chat received last is the raised text.
C16_SuppressedOnlyIfDelivered ==
    (pc = "sleep" /\ cycle.raised # None /\ cycle.sends = <<>>) =>
        chat.last = cycle.raised

\* a cycle raised the text of a missing key, which the chat had received in
\* an earlier cycle, and sent nothing
C16_Witness ==
    /\ pc = "sleep"
    /\ cycle.raised = Some("Otsutstvuet klyuch \"status\" v domashney rabote")
    /\ cycle.sends = <<>>
    /\ chat.last = cycle.raised
    /\ timestamp = IntVal(1000)

\* the cycle's only send attempt is a status message that failed
FailedStatusSend(sends) ==
    Len(sends) = 1 /\ sends[1].kind = "status" /\ ~sends[1].delivered

\* the cycle failed to deliver the message of record h
StatusFailedFor(h) ==
    /\ pc = "sleep"
    /\ FailedStatusSend(cycle.sends)
    /\ cycle.sends[1].text = Formatted(h)

\* the status API returns a valid response whose first record is h
KeepsReturning(h) ==
    /\ pc # "except"
    /\ ~cycle.empty
    /\ pc = "send" => response[1].homeworks[1] = h

\* the cycle delivered the message of record h
StatusDeliveredFor(h) ==
    /\ pc = "sleep"
    /\ OneStatusSend(cycle)
    /\ cycle.sends[1].delivered
    /\ cycle.sends[1].text = Formatted(h)

\* C17: the cycle after one whose status delivery failed requests the same
\* from_date; and when from a failed delivery of the message of a record on
\* the status API keeps returning that record first, its message is
\* eventually delivered.
C17_StatusNotLost ==
    /\ []((Looping /\ pc # "fetch" /\ prev # None /\ FailedStatusSend(prev[1].sends))
            => cycle.fetches = prev[1].fetches)
    /\ \A h \in {x \in Homeworks : WellFormed(x)} :
          []((StatusFailedFor(h) /\ []KeepsReturning(h)) => <>StatusDeliveredFor(h))

\* the message of an approved HW1 failed in one cycle and was delivered in
\* the next, which requested the same from_date
C17_Witness ==
    /\ prev # None
    /\ FailedStatusSend(prev[1].sends)
    /\ StatusDeliveredFor(Homework("approved", "HW1"))
    /\ cycle.fetches = prev[1].fetches

\* the cycle raised, and raised the text the cycle before it raised
RaisesSame ==
    /\ Looping
    /\ pc # "fetch" =>
          /\ cycle.raised # None
          /\ prev # None => prev[1].raised = cycle.raised

\* the text the cycle raised is the text the chat received last, and the
\* cycle has made no send attempt
Quiet ==
    /\ Looping
    /\ pc # "fetch" =>
          /\ cycle.raised # None
          /\ chat.last = cycle.raised
          /\ cycle.sends = <<>>

\* the cycle before made no attempt, or one attempt that delivered an error
\* notification
SilentOrDelivered(sends) ==
    \/ sends = <<>>
    \/ Len(sends) = 1 /\ sends[1].kind = "error" /\ sends[1].delivered

\* C18: when from some cycle on every cycle raises the same text, then from
\* some cycle on that text is the one the chat received last and no cycle
\* makes a send attempt; and a cycle raising the text of the cycle before it
\* makes no attempt once that cycle delivered the notification or was itself
\* silent, so the silence lasts from the cycle after the delivery for as
\* long as the text is raised.
C18_SameErrorSettles ==
    /\ [](SameErrorTwice /\ SilentOrDelivered(prev[1].sends)
            => cycle.sends = <<>> /\ chat.last = cycle.raised)
    /\ <>[]RaisesSame => <>[]Quiet

\* the unavailable endpoint was reported to the chat, and the two latest
\* cycles, raising it again, both stayed silent
C18_Witness ==
    /\ SameErrorTwice
    /\ cycle.raised = Some(get_api_answer(timestamp, [exc |-> None, status_code |-> 500,
                                                      json_ok |-> FALSE, body |-> NoBody]).text)
    /\ prev[1].sends = <<>>
    /\ cycle.sends = <<>>
    /\ chat.last = cycle.raised
    /\ message = cycle.raised

====
